---- MODULE Spec2Model ----
(***************************************************************************)
(* Model of the lecture upload / poll / completion orchestrator of the     *)
(* RecordPage component (src/unnamed/part_002) and of the Processing       *)
(* Service client it calls (src/lib/api.ts).                               *)
(*                                                                         *)
(* JavaScript runs the component single-threaded: every action below is    *)
(* one synchronous run of a handler between two awaits.  An await is a     *)
(* position (pc) of the coroutine; the action that resumes the coroutine   *)
(* draws the outcome of the awaited call.  A submission is identified by   *)
(* one number that stands for both its lecture id and its job id; an       *)
(* interval timer is identified by the submission that created it.         *)
(***************************************************************************)
EXTENDS Integers, FiniteSets, Sequences, TLC

\* ---------------------------------------------------------------- bounds
\* Spec: submit actions and status polls started, with every outcome of
\* every call drawn.
MaxSubmits == 2
MaxPolls == 3
\* SpecResubmit: the same, for the runs in which no request fails on the
\* network and the form is filled once.
ResubmitSubmits == 3
ResubmitPolls == 4
\* Request counts are kept up to this number (no run of Spec, SpecResubmit
\* or SpecSubmit issues more requests of one kind for one submission, the
\* status requests apart).
MaxCalls == 4
\* Status requests of one submission are counted up to this number: a timer
\* that is never cleared issues them without end.
MaxStatusCalls == 2
\* SpecLive: runs of pollJobStatus under way at the same time.
LivePolls == 2
\* SpecCleanup: calls of api.deleteJob.
MaxDeletes == 4
\* SpecLecturePage: fetches of the lecture started by one LecturePage.
MaxFetches == 3

Subs == 1..ResubmitSubmits
Polls == 1..ResubmitPolls

\* ------------------------------------------------------------- constants
NULL == "null"
NoFile == [name |-> "", type |-> "", size |-> 0]
MaxAudioMiB == 500
MaxSlidesMiB == 50
\* lectures.has_slides and lectures.has_alignment before any update sets them
NoFlags == [written |-> FALSE, has_slides |-> FALSE, has_alignment |-> FALSE]

VARIABLES
    mounted,                \* the RecordPage instance is still rendered
    lectureName,            \* useState: lecture name input
    audioFile,              \* useState: selected audio file or NoFile
    slidesFile,             \* useState: selected slides file or NoFile
    stage,                  \* useState: ProcessingStage
    progress,               \* useState: progress percentage
    statusMessage,          \* useState: status line
    error,                  \* useState: error text or NULL
    pollingRef,             \* useRef: interval handle, 0 for null
    completionStartedRef,   \* useRef: completion guard
    timers,                 \* interval timers that are still active
    hp,                     \* position of each handleProcess run
    polls,                  \* position of each pollJobStatus run
    jobStatus,              \* Processing Service: status of each job
    lecture,                \* Persistence Service: lectures.status by id
    summary,                \* Persistence Service: lecture_summaries rows
    calls,                  \* requests issued so far, per submission
    submittedSlides,        \* slidesFile is set in the closure of each handleProcess run
    jobSlides,              \* Processing Service: the job request had a slides field
    flags,                  \* Persistence Service: lectures.has_slides, has_alignment
    storedJobs,             \* Processing Service: the files of each job
    deleteLog,              \* api.deleteJob: the calls made, with their outcome
    request,                \* middleware: the last request received
    response,               \* middleware: the response to that request
    pageMounted,            \* LecturePage: "unopened", "mounted" or "unmounted"
    pageLecture,            \* LecturePage: useState lecture, its status or NULL
    pageTimers,             \* LecturePage: refresh intervals that are active
    pageFetches,            \* LecturePage: position of each fetchLecture run
    storedStatus            \* Persistence Service: status of the viewed lecture

ui == <<stage, progress, statusMessage, error>>
form == <<lectureName, audioFile, slidesFile>>
refs == <<pollingRef, completionStartedRef, timers>>
remote == <<jobStatus, lecture, summary>>
slides == <<submittedSlides, jobSlides, flags>>
\* the state of the other components, which RecordPage does not touch
cleanupVars == <<storedJobs, deleteLog>>
mwVars == <<request, response>>
pageVars == <<pageMounted, pageLecture, pageTimers, pageFetches, storedStatus>>
outside == <<cleanupVars, mwVars, pageVars>>
recordPage == <<mounted, form, ui, refs, hp, polls, remote, calls, slides>>
vars == <<mounted, lectureName, audioFile, slidesFile, stage, progress,
          statusMessage, error, pollingRef, completionStartedRef, timers, hp,
          polls, jobStatus, lecture, summary, calls, submittedSlides,
          jobSlides, flags, storedJobs, deleteLog,
          request, response, pageMounted, pageLecture, pageTimers,
          pageFetches, storedStatus>>

\* ------------------------------------------------------------ input sets
Names == {"", "  ", "Intro to ML"}

AudioInputs ==
    { [name |-> "lecture.mp3", type |-> "audio/mpeg", size |-> 10],
      [name |-> "notes.txt",   type |-> "text/plain", size |-> 10],
      [name |-> "huge.mp3",    type |-> "audio/mpeg", size |-> 501] }

\* Selections at the edges of the validation: accepted by the extension
\* only, by the type only, at the size limit; rejected by its last extension.
AudioSelections ==
    AudioInputs \cup
    { [name |-> "talk.M4A",     type |-> "",          size |-> 10],
      [name |-> "voice",        type |-> "audio/wav", size |-> 10],
      [name |-> "exact.wav",    type |-> "audio/wav", size |-> MaxAudioMiB],
      [name |-> "clip.mp3.exe", type |-> "application/octet-stream", size |-> 10] }

PptxType == "application/vnd.openxmlformats-officedocument.presentationml.presentation"

SlidesInputs ==
    { [name |-> "deck.pdf",  type |-> "application/pdf", size |-> 5],
      [name |-> "notes.txt", type |-> "text/plain",      size |-> 5],
      [name |-> "huge.pptx", type |-> PptxType,          size |-> 51] }

SlidesSelections ==
    SlidesInputs \cup { [name |-> "exact.pptx", type |-> "", size |-> MaxSlidesMiB] }

\* A pathname is a head followed by a tail; a head is no proper prefix of
\* another head except "/", so a pathname starts with a route exactly when
\* its head is that route ("/lecture" + "s" is "/lectures").
PathHeads == {"/", "/dashboard", "/record", "/lecture", "/login", "/about",
              "/_next/static", "/_next/image", "/favicon.ico"}
PathTails == {"", "s", "/abc", "/new", "/abc.svg", "/logo.png", ".jpg"}
NoPath == [head |-> "", tail |-> ""]
Pathnames == [head : PathHeads, tail : PathTails]

\* user: supabase.auth.getUser() finds a user for the request's cookies;
\* redirectTo: the redirectTo search parameter of the request URL, if any
Requests == [pathname : Pathnames, user : BOOLEAN,
             redirectTo : {NoPath, [head |-> "/record", tail |-> ""]}]
NoRequest == [pathname |-> NoPath, user |-> FALSE, redirectTo |-> NoPath]
NoResponse == [kind |-> "none", pathname |-> NoPath, redirectTo |-> NoPath]

Fetches == 1..MaxFetches
FreeFetch == [pc |-> "free", resp |-> ""]

JobIds == {"job-a", "job-b"}

\* HTTP statuses the Processing Service answers a DELETE with
DeleteStatuses == {200, 204, 404, 500, 503}

NoCalls == [status |-> 0, fetch |-> 0, gen |-> 0, upsert |-> 0, completed |-> 0,
            failed |-> 0, cleanup |-> 0, redirect |-> 0]

FreePoll == [sub |-> 0, pc |-> "free", resp |-> ""]
DonePoll == [sub |-> 0, pc |-> "done", resp |-> ""]
SentPoll(s) == [sub |-> s, pc |-> "sent", resp |-> ""]

\* ------------------------------------------------------- pure operators
Trim(n) == IF n = "  " THEN "" ELSE n

Extension(name) ==
    IF name = "lecture.mp3" \/ name = "huge.mp3" THEN "mp3"
    ELSE IF name = "notes.txt" THEN "txt"
    ELSE IF name = "deck.pdf" THEN "pdf"
    ELSE IF name = "huge.pptx" \/ name = "exact.pptx" THEN "pptx"
    ELSE IF name = "talk.M4A" THEN "m4a"
    ELSE IF name = "exact.wav" THEN "wav"
    ELSE IF name = "voice" THEN "voice"
    ELSE IF name = "clip.mp3.exe" THEN "exe"
    ELSE ""

ValidAudioTypes == {"audio/mpeg", "audio/mp3", "audio/wav", "audio/webm",
                    "audio/m4a", "audio/mp4", "audio/x-m4a"}
ValidAudioExtensions == {"mp3", "wav", "webm", "m4a", "mp4"}
ValidSlidesTypes == {"application/pdf", PptxType}
ValidSlidesExtensions == {"pdf", "pptx"}

getStageDisplay(s) ==
    CASE s = "audio_conversion" -> "Converting audio..."
      [] s = "transcription"    -> "Transcribing audio..."
      [] s = "slides"           -> "Processing slides..."
      [] s = "alignment"        -> "Aligning content..."
      [] s = "document"         -> "Generating document..."
      [] s = "complete"         -> "Processing complete!"
      [] OTHER                  -> "Processing..."

\* The JobStatus body the Processing Service sends for a job in status st.
StatusBody(st) ==
    CASE st = "completed" -> [status |-> "completed", progress |-> 100, stage |-> "complete"]
      [] st = "failed"    -> [status |-> "failed", progress |-> 50, stage |-> ""]
      [] OTHER            -> [status |-> "processing", progress |-> 50, stage |-> "transcription"]

isProcessing == stage # "idle" /\ stage # "error"
canProcess == audioFile # NoFile /\ Trim(lectureName) # "" /\ ~isProcessing

\* A React state setter has no effect once the component is unmounted.
SetUI(st, pr, msg, err) ==
    IF mounted
    THEN stage' = st /\ progress' = pr /\ statusMessage' = msg /\ error' = err
    ELSE UNCHANGED ui

Issue(s, what) ==
    LET most == IF what = "status" THEN MaxStatusCalls ELSE MaxCalls
    IN calls' = [calls EXCEPT ![s][what] = IF @ < most THEN @ + 1 ELSE @]

HasFreePoll == \E p \in Polls : polls[p].pc = "free"
NextPoll == CHOOSE p \in Polls : polls[p].pc = "free" /\ \A q \in Polls : polls[q].pc = "free" => p <= q

HasNewSub == \E s \in Subs : hp[s] = "new"
NextSub == CHOOSE s \in Subs : hp[s] = "new" /\ \A t \in Subs : hp[t] = "new" => s <= t

\* if (pollingRef.current) { clearInterval(pollingRef.current); pollingRef.current = null }
StopPolling ==
    /\ timers' = timers \ {pollingRef}
    /\ pollingRef' = 0

\* ------------------------------------------------------------------ Init
Init ==
    /\ mounted = TRUE
    /\ lectureName = ""
    /\ audioFile = NoFile
    /\ slidesFile = NoFile
    /\ stage = "idle"
    /\ progress = 0
    /\ statusMessage = ""
    /\ error = NULL
    /\ pollingRef = 0
    /\ completionStartedRef = FALSE
    /\ timers = {}
    /\ hp = [s \in Subs |-> "new"]
    /\ polls = [p \in Polls |-> FreePoll]
    /\ jobStatus = [s \in Subs |-> "none"]
    /\ lecture = [s \in Subs |-> "none"]
    /\ summary = [s \in Subs |-> FALSE]
    /\ calls = [s \in Subs |-> NoCalls]
    /\ submittedSlides = [s \in Subs |-> FALSE]
    /\ jobSlides = [s \in Subs |-> FALSE]
    /\ flags = [s \in Subs |-> NoFlags]
    /\ storedJobs = [j \in JobIds |-> "none"]
    /\ deleteLog = << >>
    /\ request = NoRequest
    /\ response = NoResponse
    /\ pageMounted = "unopened"
    /\ pageLecture = NULL
    /\ pageTimers = 0
    /\ pageFetches = [i \in Fetches |-> FreeFetch]
    /\ storedStatus = "processing"

\* ------------------------------------------------------------- the form
\* onChange of the name input (disabled while isProcessing)
SetLectureName(n) ==
    /\ mounted /\ ~isProcessing
    /\ n # lectureName
    /\ lectureName' = n
    /\ UNCHANGED <<mounted, audioFile, ui, refs, hp, polls, remote, calls>>
    /\ UNCHANGED <<slidesFile, slides>>
    /\ UNCHANGED outside

\* handleAudioSelect without the size check
handleAudioSelectAnySize(f) ==
    /\ mounted /\ ~isProcessing
    /\ IF f.type \notin ValidAudioTypes /\ Extension(f.name) \notin ValidAudioExtensions
       THEN /\ error' = "Please upload an MP3, WAV, WebM, or M4A audio file"
            /\ UNCHANGED audioFile
       ELSE /\ audioFile' = f
            /\ error' = NULL
    /\ UNCHANGED <<mounted, lectureName, stage, progress, statusMessage,
                   refs, hp, polls, remote, calls>>
    /\ UNCHANGED <<slidesFile, slides>>
    /\ UNCHANGED outside

handleAudioSelect(f) ==
    /\ mounted /\ ~isProcessing
    /\ IF f.type \notin ValidAudioTypes /\ Extension(f.name) \notin ValidAudioExtensions
       THEN /\ error' = "Please upload an MP3, WAV, WebM, or M4A audio file"
            /\ UNCHANGED audioFile
       ELSE IF f.size > MaxAudioMiB
       THEN /\ error' = "Audio file must be less than 500MB"
            /\ UNCHANGED audioFile
       ELSE /\ audioFile' = f
            /\ error' = NULL
    /\ UNCHANGED <<mounted, lectureName, stage, progress, statusMessage,
                   refs, hp, polls, remote, calls>>
    /\ UNCHANGED <<slidesFile, slides>>
    /\ UNCHANGED outside

removeAudioFile ==
    /\ mounted /\ ~isProcessing
    /\ audioFile # NoFile
    /\ audioFile' = NoFile
    /\ UNCHANGED <<mounted, lectureName, ui, refs, hp, polls, remote, calls>>
    /\ UNCHANGED <<slidesFile, slides>>
    /\ UNCHANGED outside

handleSlidesSelect(f) ==
    /\ mounted /\ ~isProcessing
    /\ IF f.type \notin ValidSlidesTypes /\ Extension(f.name) \notin ValidSlidesExtensions
       THEN /\ error' = "Please upload a PDF or PPTX file"
            /\ UNCHANGED slidesFile
       ELSE IF f.size > MaxSlidesMiB
       THEN /\ error' = "Slides file must be less than 50MB"
            /\ UNCHANGED slidesFile
       ELSE /\ slidesFile' = f
            /\ error' = NULL
    /\ UNCHANGED <<mounted, lectureName, audioFile, stage, progress,
                   statusMessage, refs, hp, polls, remote, calls, slides>>
    /\ UNCHANGED outside

removeSlidesFile ==
    /\ mounted /\ ~isProcessing
    /\ slidesFile # NoFile
    /\ slidesFile' = NoFile
    /\ UNCHANGED <<mounted, lectureName, audioFile, ui, refs, hp, polls,
                   remote, calls, slides>>
    /\ UNCHANGED outside

\* The user leaves the page (a link, or the navigation after completion).
\* The component registers no cleanup, so nothing else changes.
Unmount ==
    /\ mounted
    /\ mounted' = FALSE
    /\ UNCHANGED <<form, ui, refs, hp, polls, remote, calls>>
    /\ UNCHANGED slides
    /\ UNCHANGED outside

\* -------------------------------------------------------- handleProcess
\* handleProcessRun without the two validations: the upload starts with
\* whatever the form holds
handleProcessRunUnvalidated ==
    /\ HasNewSub
    /\ error' = NULL
    /\ stage' = "uploading"
    /\ progress' = 5
    /\ statusMessage' = "Uploading files..."
    /\ completionStartedRef' = FALSE
    /\ hp' = [hp EXCEPT ![NextSub] = "getUser"]
    /\ submittedSlides' = [submittedSlides EXCEPT ![NextSub] = slidesFile # NoFile]
    /\ UNCHANGED <<mounted, form, pollingRef, timers, polls, remote, calls,
                   jobSlides, flags>>
    /\ UNCHANGED outside

\* One call of the function handleProcess, up to its first await.
handleProcessRun ==
    /\ IF audioFile = NoFile
       THEN /\ error' = "Please upload an audio file"
            /\ UNCHANGED <<stage, progress, statusMessage, completionStartedRef,
                           hp, submittedSlides>>
       ELSE IF Trim(lectureName) = ""
       THEN /\ error' = "Please enter a lecture name"
            /\ UNCHANGED <<stage, progress, statusMessage, completionStartedRef,
                           hp, submittedSlides>>
       ELSE /\ HasNewSub
            /\ error' = NULL
            /\ stage' = "uploading"
            /\ progress' = 5
            /\ statusMessage' = "Uploading files..."
            /\ completionStartedRef' = FALSE
            /\ hp' = [hp EXCEPT ![NextSub] = "getUser"]
            /\ submittedSlides' = [submittedSlides EXCEPT ![NextSub] = slidesFile # NoFile]
    /\ UNCHANGED <<mounted, form, pollingRef, timers, polls, remote, calls,
                   jobSlides, flags>>
    /\ UNCHANGED outside

\* Click on the submit button, which is disabled unless canProcess.
handleProcess ==
    /\ mounted /\ canProcess
    /\ HasNewSub
    /\ handleProcessRun

\* GetUserResolve with the LectureRecord inserted before the user is checked
GetUserResolveInsertFirst(s, user) ==
    /\ hp[s] = "getUser"
    /\ IF ~user
       THEN /\ SetUI(stage, progress, statusMessage, "Please log in to continue")
            /\ hp' = [hp EXCEPT ![s] = "noUser"]
            /\ lecture' = [lecture EXCEPT ![s] = "processing"]
       ELSE /\ hp' = [hp EXCEPT ![s] = "insert"]
            /\ UNCHANGED <<ui, lecture>>
    /\ UNCHANGED <<mounted, form, refs, polls, jobStatus, summary, calls>>
    /\ UNCHANGED slides
    /\ UNCHANGED outside

\* supabase.auth.getUser() resolves
GetUserResolve(s, user) ==
    /\ hp[s] = "getUser"
    /\ IF ~user
       THEN /\ SetUI(stage, progress, statusMessage, "Please log in to continue")
            /\ hp' = [hp EXCEPT ![s] = "noUser"]
       ELSE /\ hp' = [hp EXCEPT ![s] = "insert"]
            /\ UNCHANGED ui
    /\ UNCHANGED <<mounted, form, refs, polls, remote, calls>>
    /\ UNCHANGED slides
    /\ UNCHANGED outside

\* InsertResolve without the check of lectureError and of the returned row
InsertResolveUnchecked(s, ok) ==
    /\ hp[s] = "insert"
    /\ lecture' = [lecture EXCEPT ![s] = IF ok THEN "processing" ELSE @]
    /\ SetUI(stage, 10, "Sending to processing server...", error)
    /\ hp' = [hp EXCEPT ![s] = "processLecture"]
    /\ UNCHANGED <<mounted, form, refs, polls, jobStatus, summary, calls>>
    /\ UNCHANGED slides
    /\ UNCHANGED outside

\* the insert into lectures resolves
InsertResolve(s, ok) ==
    /\ hp[s] = "insert"
    /\ IF ok
       THEN /\ lecture' = [lecture EXCEPT ![s] = "processing"]
            /\ SetUI(stage, 10, "Sending to processing server...", error)
            /\ hp' = [hp EXCEPT ![s] = "processLecture"]
       ELSE /\ SetUI("error", progress, statusMessage, "Failed to create lecture record")
            /\ hp' = [hp EXCEPT ![s] = "insertFailed"]
            /\ UNCHANGED lecture
    /\ UNCHANGED <<mounted, form, refs, polls, jobStatus, summary, calls>>
    /\ UNCHANGED slides
    /\ UNCHANGED outside

\* ProcessLectureResolve with the interval started before the submission is
\* awaited, so that it runs whatever the outcome
ProcessLectureResolveTimerFirst(s, ok) ==
    /\ hp[s] = "processLecture"
    /\ pollingRef' = s
    /\ timers' = timers \cup {s}
    /\ IF ok
       THEN /\ HasFreePoll
            /\ jobStatus' = [jobStatus EXCEPT ![s] = "processing"]
            /\ SetUI("processing", 15, statusMessage, error)
            /\ polls' = [polls EXCEPT ![NextPoll] = SentPoll(s)]
            /\ Issue(s, "status")
            /\ hp' = [hp EXCEPT ![s] = "polling"]
       ELSE /\ SetUI("error", progress, statusMessage, "Failed to start processing")
            /\ hp' = [hp EXCEPT ![s] = "submitFailed"]
            /\ UNCHANGED <<jobStatus, polls, calls>>
    /\ UNCHANGED <<mounted, form, completionStartedRef, lecture, summary>>
    /\ jobSlides' = [jobSlides EXCEPT ![s] = IF ok THEN submittedSlides[s] ELSE @]
    /\ UNCHANGED <<submittedSlides, flags>>
    /\ UNCHANGED outside

\* api.processLecture resolves; on success the interval is started and the
\* initial poll is issued.
ProcessLectureResolve(s, ok) ==
    /\ hp[s] = "processLecture"
    /\ IF ok
       THEN /\ HasFreePoll
            /\ jobStatus' = [jobStatus EXCEPT ![s] = "processing"]
            /\ SetUI("processing", 15, statusMessage, error)
            /\ pollingRef' = s
            /\ timers' = timers \cup {s}
            /\ polls' = [polls EXCEPT ![NextPoll] = SentPoll(s)]
            /\ Issue(s, "status")
            /\ hp' = [hp EXCEPT ![s] = "polling"]
       ELSE /\ SetUI("error", progress, statusMessage, "Failed to start processing")
            /\ hp' = [hp EXCEPT ![s] = "submitFailed"]
            /\ UNCHANGED <<jobStatus, pollingRef, timers, polls, calls>>
    /\ UNCHANGED <<mounted, form, completionStartedRef, lecture, summary>>
    /\ jobSlides' = [jobSlides EXCEPT ![s] = IF ok THEN submittedSlides[s] ELSE @]
    /\ UNCHANGED <<submittedSlides, flags>>
    /\ UNCHANGED outside

\* ------------------------------------------------- timer and the server
\* The interval of submission t fires: pollJobStatus(job t, lecture t).
TimerTick(t) ==
    /\ t \in timers
    /\ HasFreePoll
    /\ polls' = [polls EXCEPT ![NextPoll] = SentPoll(t)]
    /\ Issue(t, "status")
    /\ UNCHANGED <<mounted, form, ui, refs, hp, remote>>
    /\ UNCHANGED slides
    /\ UNCHANGED outside

\* The Processing Service finishes the job, one way or the other.
JobFinish(s, st) ==
    /\ jobStatus[s] = "processing"
    /\ jobStatus' = [jobStatus EXCEPT ![s] = st]
    /\ UNCHANGED <<mounted, form, ui, refs, hp, polls, lecture, summary, calls>>
    /\ UNCHANGED slides
    /\ UNCHANGED outside

\* api.getJobStatus: the server answers a status request with the status
\* the job has then (404 once the job is deleted), or the request fails.
StatusAnswer(p, fails) ==
    /\ polls[p].pc = "sent"
    /\ LET st == jobStatus[polls[p].sub]
           r  == IF fails \/ st = "deleted" THEN "reject" ELSE st
       IN polls' = [polls EXCEPT ![p].pc = "answered", ![p].resp = r]
    /\ UNCHANGED <<mounted, form, ui, refs, hp, remote, calls>>
    /\ UNCHANGED slides
    /\ UNCHANGED outside

\* -------------------------------------------------------- pollJobStatus
At(p, pc) == polls[p].pc = pc
Goto(p, pc) == polls' = [polls EXCEPT ![p].pc = pc]
Finish(p) == polls' = [polls EXCEPT ![p] = DonePoll]

\* HandleStatus with a rejected status call treated as the end of the job
HandleStatusPollFatal(p, e) ==
    /\ At(p, "answered")
    /\ LET s == polls[p].sub
           status == StatusBody(polls[p].resp)
           label == getStageDisplay(status.stage)
       IN IF polls[p].resp = "reject"
          THEN \* catch (err) of the outer try
               /\ Finish(p)
               /\ StopPolling
               /\ SetUI("error", progress, statusMessage, "Failed to get job status")
               /\ UNCHANGED <<completionStartedRef, calls>>
          ELSE IF status.status = "completed"
          THEN IF completionStartedRef
               THEN /\ SetUI(stage, status.progress, label, error)
                    /\ Finish(p)
                    /\ UNCHANGED <<refs, calls>>
               ELSE /\ completionStartedRef' = TRUE
                    /\ StopPolling
                    /\ SetUI("summary", 90, "Generating AI summary...", error)
                    /\ Issue(s, "fetch")
                    /\ Goto(p, "getResult")
          ELSE IF status.status = "failed"
          THEN /\ StopPolling
               /\ SetUI(stage, status.progress, label, error)
               /\ Issue(s, "failed")
               /\ polls' = [polls EXCEPT ![p].pc = "failUpdate", ![p].resp = e]
               /\ UNCHANGED completionStartedRef
          ELSE /\ SetUI(stage, status.progress, label, error)
               /\ Finish(p)
               /\ UNCHANGED <<refs, calls>>
    /\ UNCHANGED <<mounted, form, hp, remote>>
    /\ UNCHANGED slides
    /\ UNCHANGED outside


\* The awaited getJobStatus settles: the handler runs up to its next await.
HandleStatus(p, e) ==
    /\ At(p, "answered")
    /\ LET s == polls[p].sub
           status == StatusBody(polls[p].resp)
           label == getStageDisplay(status.stage)
       IN IF polls[p].resp = "reject"
          THEN \* catch (err) of the outer try
               /\ Finish(p)
               /\ UNCHANGED <<ui, refs, calls>>
          ELSE IF status.status = "completed"
          THEN IF completionStartedRef
               THEN /\ SetUI(stage, status.progress, label, error)
                    /\ Finish(p)
                    /\ UNCHANGED <<refs, calls>>
               ELSE /\ completionStartedRef' = TRUE
                    /\ StopPolling
                    /\ SetUI("summary", 90, "Generating AI summary...", error)
                    /\ Issue(s, "fetch")
                    /\ Goto(p, "getResult")
          ELSE IF status.status = "failed"
          THEN /\ StopPolling
               /\ SetUI(stage, status.progress, label, error)
               /\ Issue(s, "failed")
               /\ polls' = [polls EXCEPT ![p].pc = "failUpdate", ![p].resp = e]
               /\ UNCHANGED completionStartedRef
          ELSE /\ SetUI(stage, status.progress, label, error)
               /\ Finish(p)
               /\ UNCHANGED <<refs, calls>>
    /\ UNCHANGED <<mounted, form, hp, remote>>
    /\ UNCHANGED slides
    /\ UNCHANGED outside

\* GetResultResolve without the test of markdownContent: a summary is
\* requested for every fetched result
GetResultResolveAlwaysSummarise(p, r) ==
    /\ At(p, "getResult")
    /\ jobStatus[polls[p].sub] = "deleted" => r = "reject"
    /\ LET s == polls[p].sub
           to == IF r \in {"md", "nomd"} THEN "genSummary" ELSE "catchUpdate"
       IN /\ Issue(s, IF r \in {"md", "nomd"} THEN "gen" ELSE "completed")
          /\ polls' = [polls EXCEPT ![p].pc = to, ![p].resp = r]
    /\ UNCHANGED <<mounted, form, ui, refs, hp, remote>>
    /\ UNCHANGED slides
    /\ UNCHANGED outside

\* GetResultResolve with api.generateSummary not awaited: the upsert is
\* issued in the same run as the generation request
GetResultResolveNoAwait(p, r) ==
    /\ At(p, "getResult")
    /\ jobStatus[polls[p].sub] = "deleted" => r = "reject"
    /\ LET s == polls[p].sub
           to == CASE r = "md"   -> "genSummary"
                   [] r = "nomd" -> "updateNoMd"
                   [] OTHER      -> "catchUpdate"
       IN /\ IF r = "md"
             THEN calls' = [calls EXCEPT ![s].gen = @ + 1, ![s].upsert = @ + 1]
             ELSE Issue(s, "completed")
          /\ polls' = [polls EXCEPT ![p].pc = to, ![p].resp = r]
    /\ UNCHANGED <<mounted, form, ui, refs, hp, remote>>
    /\ UNCHANGED slides
    /\ UNCHANGED outside

\* api.getJobResult settles: "md" a result with markdown_content, "nomd"
\* a result without, "reject" a failed request (404 once the job is deleted).
GetResultResolve(p, r) ==
    /\ At(p, "getResult")
    /\ jobStatus[polls[p].sub] = "deleted" => r = "reject"
    /\ LET s == polls[p].sub
           to == CASE r = "md"   -> "genSummary"
                   [] r = "nomd" -> "updateNoMd"
                   [] OTHER      -> "catchUpdate"
       IN /\ Issue(s, IF r = "md" THEN "gen" ELSE "completed")
          /\ polls' = [polls EXCEPT ![p].pc = to, ![p].resp = r]
    /\ UNCHANGED <<mounted, form, ui, refs, hp, remote>>
    /\ UNCHANGED slides
    /\ UNCHANGED outside

\* api.generateSummary settles
GenSummaryResolve(p, ok) ==
    /\ At(p, "genSummary")
    /\ LET s == polls[p].sub
       IN IF ok
          THEN /\ SetUI("saving", 95, "Saving to database...", error)
               /\ Issue(s, "upsert")
               /\ Goto(p, "upsert")
          ELSE /\ Issue(s, "completed")
               /\ Goto(p, "catchUpdate")
               /\ UNCHANGED ui
    /\ UNCHANGED <<mounted, form, refs, hp, remote>>
    /\ UNCHANGED slides
    /\ UNCHANGED outside

\* UpsertResolve with stage 'complete' set as soon as the upsert settles,
\* before the update of the LectureRecord and the cleanup request
UpsertResolveCompleteEarly(p, ok) ==
    /\ At(p, "upsert")
    /\ LET s == polls[p].sub
       IN /\ summary' = [summary EXCEPT ![s] = @ \/ ok]
          /\ SetUI("complete", 100, "Processing complete!", error)
          /\ Issue(s, "completed")
          /\ Goto(p, "updateMd")
    /\ UNCHANGED <<mounted, form, refs, hp, jobStatus, lecture>>
    /\ UNCHANGED slides
    /\ UNCHANGED outside

\* the upsert into lecture_summaries settles (its error is not inspected)
UpsertResolve(p, ok) ==
    /\ At(p, "upsert")
    /\ LET s == polls[p].sub
       IN /\ summary' = [summary EXCEPT ![s] = @ \/ ok]
          /\ Issue(s, "completed")
          /\ Goto(p, "updateMd")
    /\ UNCHANGED <<mounted, form, ui, refs, hp, jobStatus, lecture>>
    /\ UNCHANGED slides
    /\ UNCHANGED outside

\* UpdateResolve with the slide flags read from the form as it is when
\* the update settles, not from the closure of the submission
UpdateResolveCurrentForm(p, ok) ==
    /\ At(p, "updateMd") \/ At(p, "updateNoMd")
    /\ LET s == polls[p].sub
       IN /\ lecture' = [lecture EXCEPT ![s] = IF ok THEN "completed" ELSE @]
          /\ SetUI("complete", 100, "Processing complete!", error)
          /\ Issue(s, "cleanup")
          /\ Goto(p, "delete")
    /\ UNCHANGED <<mounted, form, refs, hp, jobStatus, summary>>
    /\ flags' = IF ok /\ At(p, "updateMd")
                 THEN [flags EXCEPT ![polls[p].sub] =
                          [written |-> TRUE,
                           has_slides |-> slidesFile # NoFile,
                           has_alignment |-> slidesFile # NoFile]]
                 ELSE flags
    /\ UNCHANGED <<submittedSlides, jobSlides>>
    /\ UNCHANGED outside

\* the update of lectures to 'completed' settles (its error is not
\* inspected), on either branch of the inner try
UpdateResolve(p, ok) ==
    /\ At(p, "updateMd") \/ At(p, "updateNoMd")
    /\ LET s == polls[p].sub
       IN /\ lecture' = [lecture EXCEPT ![s] = IF ok THEN "completed" ELSE @]
          /\ SetUI("complete", 100, "Processing complete!", error)
          /\ Issue(s, "cleanup")
          /\ Goto(p, "delete")
    /\ UNCHANGED <<mounted, form, refs, hp, jobStatus, summary>>
    /\ flags' = IF ok /\ At(p, "updateMd")
                 THEN [flags EXCEPT ![polls[p].sub] =
                          [written |-> TRUE,
                           has_slides |-> submittedSlides[polls[p].sub],
                           has_alignment |-> submittedSlides[polls[p].sub]]]
                 ELSE flags
    /\ UNCHANGED <<submittedSlides, jobSlides>>
    /\ UNCHANGED outside

\* api.deleteJob: DELETE /api/jobs/{id}; throws unless ok or 404
deleteJob(s, ok) ==
    jobStatus' = [jobStatus EXCEPT ![s] = IF ok /\ @ # "none" THEN "deleted" ELSE @]

\* DeleteResolve without the .catch: a failed cleanup is thrown into the
\* inner catch
DeleteResolveUncaught(p, ok) ==
    /\ At(p, "delete")
    /\ deleteJob(polls[p].sub, ok)
    /\ IF ok
       THEN Goto(p, "timeout") /\ UNCHANGED calls
       ELSE Goto(p, "catchUpdate") /\ Issue(polls[p].sub, "completed")
    /\ UNCHANGED <<mounted, form, ui, refs, hp, lecture, summary>>
    /\ UNCHANGED slides
    /\ UNCHANGED outside

\* deleteJob(...).catch(() => {}) settles; the redirect timeout is set
DeleteResolve(p, ok) ==
    /\ At(p, "delete")
    /\ deleteJob(polls[p].sub, ok)
    /\ Goto(p, "timeout")
    /\ UNCHANGED <<mounted, form, ui, refs, hp, lecture, summary, calls>>
    /\ UNCHANGED slides
    /\ UNCHANGED outside

\* the 1500 ms timeout fires: router.push(`/lecture/${lectureId}`)
RedirectTimeout(p) ==
    /\ At(p, "timeout")
    /\ Issue(polls[p].sub, "redirect")
    /\ Finish(p)
    /\ UNCHANGED <<mounted, form, ui, refs, hp, remote>>
    /\ UNCHANGED slides
    /\ UNCHANGED outside

\* CatchUpdateResolve with the enrichment failure treated as a failed job
CatchUpdateResolveFatal(p, ok) ==
    /\ At(p, "catchUpdate")
    /\ LET s == polls[p].sub
       IN /\ lecture' = [lecture EXCEPT ![s] = IF ok THEN "failed" ELSE @]
          /\ SetUI("error", progress, statusMessage, "Processing failed")
          /\ Issue(s, "cleanup")
          /\ Goto(p, "catchDelete")
    /\ UNCHANGED <<mounted, form, refs, hp, jobStatus, summary>>
    /\ UNCHANGED slides
    /\ UNCHANGED outside

\* inner catch: the update of lectures to 'completed' settles
CatchUpdateResolve(p, ok) ==
    /\ At(p, "catchUpdate")
    /\ LET s == polls[p].sub
       IN /\ lecture' = [lecture EXCEPT ![s] = IF ok THEN "completed" ELSE @]
          /\ Issue(s, "cleanup")
          /\ Goto(p, "catchDelete")
    /\ UNCHANGED <<mounted, form, ui, refs, hp, jobStatus, summary>>
    /\ UNCHANGED slides
    /\ UNCHANGED outside

\* inner catch: deleteJob(...).catch(() => {}) settles, then router.push
CatchDeleteResolve(p, ok) ==
    /\ At(p, "catchDelete")
    /\ deleteJob(polls[p].sub, ok)
    /\ Issue(polls[p].sub, "redirect")
    /\ Finish(p)
    /\ UNCHANGED <<mounted, form, ui, refs, hp, lecture, summary>>
    /\ UNCHANGED slides
    /\ UNCHANGED outside

\* FailUpdateResolve with a navigation to the lecture after the failure
FailUpdateResolveRedirect(p, ok) ==
    /\ At(p, "failUpdate")
    /\ LET s == polls[p].sub
           e == polls[p].resp
       IN /\ lecture' = [lecture EXCEPT ![s] = IF ok THEN "failed" ELSE @]
          /\ SetUI("error", progress, statusMessage, IF e = "" THEN "Processing failed" ELSE e)
          /\ Issue(s, "redirect")
    /\ Finish(p)
    /\ UNCHANGED <<mounted, form, refs, hp, jobStatus, summary>>
    /\ UNCHANGED slides
    /\ UNCHANGED outside

\* 'failed' branch: the update of lectures to 'failed' settles
FailUpdateResolve(p, ok) ==
    /\ At(p, "failUpdate")
    /\ LET s == polls[p].sub
           e == polls[p].resp
       IN /\ lecture' = [lecture EXCEPT ![s] = IF ok THEN "failed" ELSE @]
          /\ SetUI("error", progress, statusMessage, IF e = "" THEN "Processing failed" ELSE e)
    /\ Finish(p)
    /\ UNCHANGED <<mounted, form, refs, hp, jobStatus, summary, calls>>
    /\ UNCHANGED slides
    /\ UNCHANGED outside

\* The record of a pollJobStatus run that has returned is dropped.
ReleasePoll(p) ==
    /\ At(p, "done")
    /\ polls' = [polls EXCEPT ![p] = FreePoll]
    /\ UNCHANGED <<mounted, form, ui, refs, hp, remote, calls>>
    /\ UNCHANGED slides
    /\ UNCHANGED outside

\* ------------------------------------------------------- api.deleteJob
\* Response.ok of the Fetch API: the status is in the range 200-299.
ResponseOk(status) == status \in 200..299

\* deleteJobRaises without the exception made for 404
deleteJobRaisesUnlessOk(status) == ~ResponseOk(status)

\* api.deleteJob throws 'Failed to delete job' for this response status
deleteJobRaises(status) == ~ResponseOk(status) /\ status # 404

\* The statuses the Processing Service can answer DELETE /api/jobs/{id}
\* with: a job it holds is deleted (2xx) or the request fails (5xx); a job
\* it does not hold (never created, or deleted before) is answered 404 or
\* the request fails.
DeleteAnswers(j) ==
    IF storedJobs[j] = "stored" THEN {200, 204, 500, 503} ELSE {404, 500, 503}

\* api.processLecture created the job j on the Processing Service
JobStored(j) ==
    /\ storedJobs[j] = "none"
    /\ storedJobs' = [storedJobs EXCEPT ![j] = "stored"]
    /\ UNCHANGED <<recordPage, deleteLog, mwVars, pageVars>>

\* One call of api.deleteJob(j), answered with status
CallDeleteJob(j, status) ==
    /\ Len(deleteLog) < MaxDeletes
    /\ status \in DeleteAnswers(j)
    /\ storedJobs' = [storedJobs EXCEPT ![j] = IF ResponseOk(status) THEN "deleted" ELSE @]
    /\ deleteLog' = Append(deleteLog, [job |-> j, status |-> status,
                                        raised |-> deleteJobRaises(status)])
    /\ UNCHANGED <<recordPage, mwVars, pageVars>>

\* ---------------------------------------------------------- middleware
startsWith(pathname, route) == pathname.head = route

protectedRoutes == {"/dashboard", "/record", "/lecture"}
authRoutes == {"/login"}

\* config.matcher: every path except those starting with _next/static,
\* _next/image or favicon.ico and those ending in an image extension
matcher(pathname) ==
    /\ pathname.head \notin {"/_next/static", "/_next/image", "/favicon.ico"}
    /\ pathname.tail \notin {"/abc.svg", "/logo.png", ".jpg"}

NextResponse(req) ==
    [kind |-> "next", pathname |-> req.pathname, redirectTo |-> req.redirectTo]

\* the function middleware(request)
middleware(req) ==
    LET isProtectedRoute == \E route \in protectedRoutes : startsWith(req.pathname, route)
        isAuthRoute == \E route \in authRoutes : startsWith(req.pathname, route)
    IN IF isProtectedRoute /\ ~req.user
       THEN [kind |-> "redirect", pathname |-> [head |-> "/login", tail |-> ""],
             redirectTo |-> req.pathname]
       ELSE IF isAuthRoute /\ req.user
       THEN [kind |-> "redirect", pathname |-> [head |-> "/dashboard", tail |-> ""],
             redirectTo |-> req.redirectTo]
       ELSE NextResponse(req)

\* A request arrives: the middleware runs if the matcher selects the path,
\* otherwise the request goes on to its route untouched.
Request(req) ==
    /\ request' = req
    /\ response' = IF matcher(req.pathname) THEN middleware(req) ELSE NextResponse(req)
    /\ UNCHANGED <<recordPage, cleanupVars, pageVars>>

\* --------------------------------------------------------- LecturePage
HasFreeFetch == \E i \in Fetches : pageFetches[i].pc = "free"
NextFetch == CHOOSE i \in Fetches : pageFetches[i].pc = "free"
                 /\ \A k \in Fetches : pageFetches[k].pc = "free" => i <= k

\* statusEffect with no cleanup function returned: an interval, once set,
\* is never cleared
statusEffectNoCleanup(old, new, active) ==
    IF new = old THEN active
    ELSE active + (IF new = "processing" THEN 1 ELSE 0)

\* useEffect(..., [lecture?.status]) at the commit of a render in which the
\* status changed from old to new: the cleanup of the last run clears its
\* interval, then the effect sets one if the status is 'processing'.
statusEffect(old, new, active) ==
    IF new = old THEN active
    ELSE IF new = "processing" THEN 1 ELSE 0

\* The view is opened: first render, fetchLecture(true) up to its await.
OpenLecture ==
    /\ pageMounted = "unopened"
    /\ pageMounted' = "mounted"
    /\ pageFetches' = [pageFetches EXCEPT ![NextFetch] = [pc |-> "sent", resp |-> ""]]
    /\ UNCHANGED <<pageLecture, pageTimers, storedStatus>>
    /\ UNCHANGED <<recordPage, cleanupVars, mwVars>>

\* The upload flow (or the service) stores the final status of the lecture.
StoreStatus(st) ==
    /\ storedStatus = "processing"
    /\ storedStatus' = st
    /\ UNCHANGED <<pageMounted, pageLecture, pageTimers, pageFetches>>
    /\ UNCHANGED <<recordPage, cleanupVars, mwVars>>

\* The interval fires: fetchLecture(false) up to its await.
RefreshTick ==
    /\ pageTimers > 0
    /\ HasFreeFetch
    /\ pageFetches' = [pageFetches EXCEPT ![NextFetch] = [pc |-> "sent", resp |-> ""]]
    /\ UNCHANGED <<pageMounted, pageLecture, pageTimers, storedStatus>>
    /\ UNCHANGED <<recordPage, cleanupVars, mwVars>>

\* The Persistence Service answers the select of the lecture row.
FetchAnswer(i, ok) ==
    /\ pageFetches[i].pc = "sent"
    /\ pageFetches' = [pageFetches EXCEPT ![i] =
                          [pc |-> "answered",
                           resp |-> IF ok THEN storedStatus ELSE "error"]]
    /\ UNCHANGED <<pageMounted, pageLecture, pageTimers, storedStatus>>
    /\ UNCHANGED <<recordPage, cleanupVars, mwVars>>

\* fetchLecture resumes: a lectureError is thrown and caught, otherwise
\* setLecture(lectureData); the render that follows runs the effect.
FetchHandle(i) ==
    /\ pageFetches[i].pc = "answered"
    /\ pageFetches' = [pageFetches EXCEPT ![i] = [pc |-> "done", resp |-> ""]]
    /\ IF pageFetches[i].resp = "error" \/ pageMounted # "mounted"
       THEN UNCHANGED <<pageLecture, pageTimers>>
       ELSE /\ pageLecture' = pageFetches[i].resp
            /\ pageTimers' = statusEffect(pageLecture, pageFetches[i].resp, pageTimers)
    /\ UNCHANGED <<pageMounted, storedStatus>>
    /\ UNCHANGED <<recordPage, cleanupVars, mwVars>>

\* The view is torn down: the cleanup of the effect clears its interval.
CloseLecture ==
    /\ pageMounted = "mounted"
    /\ pageMounted' = "unmounted"
    /\ pageTimers' = 0
    /\ UNCHANGED <<pageLecture, pageFetches, storedStatus>>
    /\ UNCHANGED <<recordPage, cleanupVars, mwVars>>

\* ------------------------------------------------------------------ Next
SubsStarted == Cardinality({s \in Subs : hp[s] # "new"})
PollsStarted == Cardinality({p \in Polls : polls[p].pc # "free"})

Next ==
    \/ \E n \in Names : SetLectureName(n)
    \/ \E f \in AudioInputs : handleAudioSelect(f)
    \/ removeAudioFile
    \/ Unmount
    \/ SubsStarted < MaxSubmits /\ handleProcess
    \/ \E s \in Subs, user \in BOOLEAN : GetUserResolve(s, user)
    \/ \E s \in Subs, ok \in BOOLEAN : InsertResolve(s, ok)
    \/ \E s \in Subs, ok \in BOOLEAN :
          (ok => PollsStarted < MaxPolls) /\ ProcessLectureResolve(s, ok)
    \/ PollsStarted < MaxPolls /\ \E t \in Subs : TimerTick(t)
    \/ \E s \in Subs, st \in {"completed", "failed"} : JobFinish(s, st)
    \/ \E p \in Polls, fails \in BOOLEAN : StatusAnswer(p, fails)
    \/ \E p \in Polls, e \in {"", "Transcription failed"} : HandleStatus(p, e)
    \/ \E p \in Polls, r \in {"md", "nomd", "reject"} : GetResultResolve(p, r)
    \/ \E p \in Polls, ok \in BOOLEAN : GenSummaryResolve(p, ok)
    \/ \E p \in Polls, ok \in BOOLEAN : UpsertResolve(p, ok)
    \/ \E p \in Polls, ok \in BOOLEAN : UpdateResolve(p, ok)
    \/ \E p \in Polls, ok \in BOOLEAN : DeleteResolve(p, ok)
    \/ \E p \in Polls : RedirectTimeout(p)
    \/ \E p \in Polls, ok \in BOOLEAN : CatchUpdateResolve(p, ok)
    \/ \E p \in Polls, ok \in BOOLEAN : CatchDeleteResolve(p, ok)
    \/ \E p \in Polls, ok \in BOOLEAN : FailUpdateResolve(p, ok)

Spec == Init /\ [][Next]_vars

\* The runs of the component in which the user sets the name and the audio
\* file once, with valid input, selects and removes slides files whenever
\* the form is enabled, and stays on the page, and in which every request
\* reaches its server and is answered: the only failures are those of the
\* job itself and the 404 of a deleted job.
NextResubmit ==
    \/ stage = "idle" /\ SetLectureName("Intro to ML")
    \/ stage = "idle" /\ \E f \in AudioInputs : f.name = "lecture.mp3" /\ handleAudioSelect(f)
    \/ \E f \in SlidesInputs : handleSlidesSelect(f)
    \/ removeSlidesFile
    \/ SubsStarted < ResubmitSubmits /\ handleProcess
    \/ \E s \in Subs : GetUserResolve(s, TRUE)
    \/ \E s \in Subs : InsertResolve(s, TRUE)
    \/ PollsStarted < ResubmitPolls /\ \E s \in Subs : ProcessLectureResolve(s, TRUE)
    \/ PollsStarted < ResubmitPolls /\ \E t \in Subs : TimerTick(t)
    \/ \E s \in Subs, st \in {"completed", "failed"} : JobFinish(s, st)
    \/ \E p \in Polls : StatusAnswer(p, FALSE)
    \/ \E p \in Polls : HandleStatus(p, "")
    \/ \E p \in Polls, r \in {"md", "nomd", "reject"} :
          At(p, "getResult") /\ (r = "reject" => jobStatus[polls[p].sub] = "deleted")
          /\ GetResultResolve(p, r)
    \/ \E p \in Polls : GenSummaryResolve(p, TRUE)
    \/ \E p \in Polls : UpsertResolve(p, TRUE)
    \/ \E p \in Polls : UpdateResolve(p, TRUE)
    \/ \E p \in Polls : DeleteResolve(p, TRUE)
    \/ \E p \in Polls : RedirectTimeout(p)
    \/ \E p \in Polls : CatchUpdateResolve(p, TRUE)
    \/ \E p \in Polls : CatchDeleteResolve(p, TRUE)
    \/ \E p \in Polls : FailUpdateResolve(p, TRUE)

SpecResubmit == Init /\ [][NextResubmit]_vars

\* The form handlers on every kind of selection, and the function
\* handleProcess called on any form the page can hold while it
\* is not processing (the button's disabled attribute is not relied on),
\* followed by the start of the submission, which here always ends in a
\* failure, so that the page is ready for another call.
NextSubmit ==
    \/ \E n \in Names : SetLectureName(n)
    \/ \E f \in AudioSelections : handleAudioSelect(f)
    \/ removeAudioFile
    \/ \E f \in SlidesSelections : handleSlidesSelect(f)
    \/ removeSlidesFile
    \/ /\ mounted /\ ~isProcessing
       /\ SubsStarted < MaxSubmits
       /\ handleProcessRun
    \/ \E s \in Subs, user \in BOOLEAN : GetUserResolve(s, user)
    \/ \E s \in Subs, ok \in BOOLEAN : InsertResolve(s, ok)
    \/ \E s \in Subs : ProcessLectureResolve(s, FALSE)

SpecSubmit == Init /\ [][NextSubmit]_vars

\* The client function api.deleteJob called for jobs of the Processing
\* Service, any number of times per job.
NextCleanup ==
    \/ \E j \in JobIds : JobStored(j)
    \/ \E j \in JobIds, status \in DeleteStatuses : CallDeleteJob(j, status)

SpecCleanup == Init /\ [][NextCleanup]_vars

\* The requests the application receives, one after another.
NextMiddleware == \E req \in Requests : Request(req)

SpecMiddleware == Init /\ [][NextMiddleware]_vars

\* One LecturePage from its opening to its teardown, while the lecture's
\* stored status may become final.
NextLecturePage ==
    \/ OpenLecture
    \/ \E st \in {"completed", "failed"} : StoreStatus(st)
    \/ RefreshTick
    \/ \E i \in Fetches, ok \in BOOLEAN : FetchAnswer(i, ok)
    \/ \E i \in Fetches : FetchHandle(i)
    \/ CloseLecture

SpecLecturePage == Init /\ [][NextLecturePage]_vars

\* The runs of SpecResubmit without the slides selection and with no bound
\* on the number of polls: a timer ticks while fewer than LivePolls runs of
\* pollJobStatus are under way. The Processing Service reports 'failed' for
\* the first job and 'completed' for the later ones, and no call fails (no
\* run fetches the result of a job it has already cleaned up, so the catch
\* block is never entered).
LiveOutcome(s) == IF s = 1 THEN "failed" ELSE "completed"

NextLive ==
    \/ stage = "idle" /\ SetLectureName("Intro to ML")
    \/ stage = "idle" /\ \E f \in AudioInputs : f.name = "lecture.mp3" /\ handleAudioSelect(f)
    \/ SubsStarted < ResubmitSubmits /\ handleProcess
    \/ \E s \in Subs : GetUserResolve(s, TRUE)
    \/ \E s \in Subs : InsertResolve(s, TRUE)
    \/ \E s \in Subs : ProcessLectureResolve(s, TRUE)
    \/ \E t \in Subs : PollsStarted < LivePolls /\ TimerTick(t)
    \/ \E s \in Subs : JobFinish(s, LiveOutcome(s))
    \/ \E p \in Polls : StatusAnswer(p, FALSE)
    \/ \E p \in Polls : HandleStatus(p, "")
    \/ \E p \in Polls : GetResultResolve(p, "md")
    \/ \E p \in Polls : GenSummaryResolve(p, TRUE)
    \/ \E p \in Polls : UpsertResolve(p, TRUE)
    \/ \E p \in Polls : UpdateResolve(p, TRUE)
    \/ \E p \in Polls : DeleteResolve(p, TRUE)
    \/ \E p \in Polls : RedirectTimeout(p)
    \/ \E p \in Polls : FailUpdateResolve(p, TRUE)
    \/ \E p \in Polls : ReleasePoll(p)

\* One step of a handleProcess run, of a pollJobStatus run: the resolution
\* of the call the run is waiting for. At most one disjunct is enabled at a
\* time, so fairness of the step is fairness of every resolution.
handleProcessStep(s) ==
    \/ GetUserResolve(s, TRUE)
    \/ InsertResolve(s, TRUE)
    \/ ProcessLectureResolve(s, TRUE)

pollJobStatusStep(p) ==
    \/ StatusAnswer(p, FALSE)
    \/ HandleStatus(p, "")
    \/ GetResultResolve(p, "md")
    \/ GenSummaryResolve(p, TRUE)
    \/ UpsertResolve(p, TRUE)
    \/ UpdateResolve(p, TRUE)
    \/ DeleteResolve(p, TRUE)
    \/ RedirectTimeout(p)
    \/ FailUpdateResolve(p, TRUE)
    \/ ReleasePoll(p)

\* Every issued call is answered and handled, every job finishes, and a
\* timer that stays active ticks again and again (a tick needs fewer than
\* LivePolls runs under way, which holds again and again: strong fairness).
Fairness ==
    /\ \A s \in Subs :
         /\ WF_vars(handleProcessStep(s))
         /\ SF_vars(PollsStarted < LivePolls /\ TimerTick(s))
         /\ WF_vars(JobFinish(s, LiveOutcome(s)))
    /\ \A p \in Polls : WF_vars(pollJobStatusStep(p))

SpecLive == Init /\ [][NextLive]_vars /\ Fairness

\* ---------------------------------------------------------------- claims
\* A step in which the pollJobStatus run p handles its status response.
Handles(p) == polls[p].pc = "answered" /\ polls'[p].pc # "answered"

\* C1: for every submission the completion pipeline runs at most once: at
\* most one result fetch, one summary generation, one update of the
\* LectureRecord to 'completed', one cleanup request and one redirect,
\* however many 'completed' responses are handled.
C1_PipelineOnce ==
    \A s \in Subs :
        /\ calls[s].fetch <= 1
        /\ calls[s].gen <= 1
        /\ calls[s].completed <= 1
        /\ calls[s].cleanup <= 1
        /\ calls[s].redirect <= 1

\* C2: the LectureRecord of a failed job is updated to 'failed' at most
\* once, and once that update was issued the timer of the submission is
\* no longer active.
C2_FailedOnce ==
    \A s \in Subs :
        /\ calls[s].failed <= 1
        /\ calls[s].failed >= 1 => s \notin timers

\* C3: once the guard was flipped for a submission (its result fetch was
\* issued in that same step), the repeating timer of that submission is
\* cancelled and starts no further poll.
C3_TimerCancelledWithGuard ==
    \A s \in Subs : calls[s].fetch >= 1 => s \notin timers

\* C4: after the view was torn down in stage 'uploading' or 'processing'
\* no repeating poll timer is active.
C4_TeardownCancelsTimer ==
    (~mounted /\ stage \in {"uploading", "processing"}) => timers = {}

\* C5: whenever the stage is 'complete' or 'error', no repeating poll timer
\* is active.
C5_NoTimerWhenTerminal ==
    (mounted /\ stage \in {"complete", "error"}) => timers = {}

\* C6: handling a status response of a submission whose completion guard
\* has fired leaves the stage, the progress, the status message and the
\* persisted records unchanged.
C6_LateResponseDiscarded ==
    [][\A p \in Polls :
          (/\ Handles(p)
           /\ polls[p].resp # "reject"
           /\ completionStartedRef
           /\ calls[polls[p].sub].fetch >= 1)
          => UNCHANGED <<stage, progress, statusMessage, lecture, summary>>]_vars

\* C7: when the result fetch or the summary generation rejects, the handler
\* leaves the stage and the error message alone, issues the update of the
\* LectureRecord to 'completed' and none to 'failed', writes no
\* SummaryRecord, then requests the cleanup of the job, then navigates.
C7_EnrichmentFailure ==
    [][\A p \in Polls :
          LET s == polls[p].sub
              quiet == stage' = stage /\ error' = error /\ summary' = summary
                       /\ calls'[s].upsert = calls[s].upsert
                       /\ calls'[s].failed = calls[s].failed
          IN /\ (polls[p].pc # "catchUpdate" /\ polls'[p].pc = "catchUpdate")
                => /\ polls[p].pc \in {"getResult", "genSummary"}
                   /\ quiet
                   /\ calls'[s].completed = calls[s].completed + 1
             /\ (polls[p].pc = "catchUpdate" /\ polls'[p].pc # "catchUpdate")
                => /\ polls'[p].pc = "catchDelete"
                   /\ quiet
                   /\ lecture'[s] \in {lecture[s], "completed"}
                   /\ calls'[s].cleanup = calls[s].cleanup + 1
             /\ (polls[p].pc = "catchDelete" /\ polls'[p].pc # "catchDelete")
                => /\ polls'[p].pc = "done"
                   /\ quiet
                   /\ lecture' = lecture
                   /\ calls'[s].redirect = calls[s].redirect + 1]_vars

\* C7 witness: the enrichment failed (the stage is still 'summary'), the
\* LectureRecord is 'completed' without a summary, the cleanup was
\* requested and the navigation was issued.
C7_Witness ==
    /\ mounted /\ stage = "summary"
    /\ \E s \in Subs :
          /\ lecture[s] = "completed" /\ ~summary[s]
          /\ calls[s].cleanup = 1 /\ calls[s].redirect = 1 /\ calls[s].failed = 0

\* C8: a submit action whose identity lookup returned no user has created
\* no LectureRecord, submitted no job, started no timer and no poll, and
\* the step that aborts it sets the authorization message and nothing else.
C8_NoUserAborts ==
    /\ [](\A s \in Subs :
            hp[s] = "noUser"
            => /\ lecture[s] = "none" /\ jobStatus[s] = "none"
               /\ s \notin timers /\ pollingRef # s
               /\ calls[s] = NoCalls)
    /\ [][\A s \in Subs :
            (hp[s] = "getUser" /\ hp'[s] = "noUser")
            => /\ mounted => error' = "Please log in to continue"
               /\ UNCHANGED <<remote, refs, polls, calls>>]_vars

C8_Witness ==
    \E s \in Subs : hp[s] = "noUser" /\ error = "Please log in to continue"

\* C9: the step in which the identity lookup returns no user moves the
\* stage to 'error', so that the form is editable again.
C9_NoUserReachesError ==
    [][\A s \in Subs :
          (mounted /\ hp[s] = "getUser" /\ hp'[s] = "noUser")
          => stage' = "error" /\ ~isProcessing']_vars

\* C10: the Processing Service is contacted for a submission (job
\* submission, status poll) only when its LectureRecord was created, and
\* the step in which the insert fails ends the submit action in stage
\* 'error' with the message, for good.
C10_InsertFailureAborts ==
    /\ [](\A s \in Subs :
            (\/ hp[s] \in {"processLecture", "polling", "submitFailed"}
             \/ jobStatus[s] # "none"
             \/ calls[s] # NoCalls
             \/ s \in timers)
            => lecture[s] # "none")
    /\ [][\A s \in Subs :
            /\ (hp[s] = "insert" /\ hp'[s] = "insertFailed")
               => /\ mounted => (stage' = "error"
                                 /\ error' = "Failed to create lecture record")
                  /\ lecture'[s] = "none"
            /\ hp[s] = "insertFailed" => hp'[s] = "insertFailed"]_vars

C10_Witness ==
    \E s \in Subs :
        /\ hp[s] = "insertFailed" /\ lecture[s] = "none" /\ jobStatus[s] = "none"
        /\ stage = "error" /\ error = "Failed to create lecture record"

\* C11: a submit action whose job submission failed has started no timer
\* and issued no poll or other request, and its LectureRecord is left in
\* status 'processing'; the step in which the submission fails sets stage
\* 'error' with the failure message and touches no record.
C11_SubmitFailureOrphan ==
    /\ [](\A s \in Subs :
            hp[s] = "submitFailed"
            => /\ lecture[s] = "processing" /\ jobStatus[s] = "none"
               /\ s \notin timers /\ pollingRef # s
               /\ calls[s] = NoCalls)
    /\ [][\A s \in Subs :
            /\ (hp[s] = "processLecture" /\ hp'[s] = "submitFailed")
               => /\ mounted => (stage' = "error"
                                 /\ error' = "Failed to start processing")
                  /\ UNCHANGED <<remote, refs, polls, calls>>
            /\ hp[s] = "submitFailed" => hp'[s] = "submitFailed"]_vars

C11_Witness ==
    \E s \in Subs :
        /\ hp[s] = "submitFailed" /\ lecture[s] = "processing"
        /\ stage = "error" /\ error = "Failed to start processing"

\* C12: a call of the submit handler with no audio selection, or with a
\* lecture name that is empty after trimming, only sets the validation
\* message: the stage, the progress, both refs, every submission's position
\* (no identity lookup, no insert, no job submission) and every record are
\* left alone; and a submission starts only from a form with an audio file
\* and a non-blank name.
C12_InvalidSubmitIsInert ==
    [][/\ ((audioFile = NoFile \/ Trim(lectureName) = "") /\ handleProcessRun)
          => /\ UNCHANGED <<mounted, form, stage, progress, statusMessage,
                            refs, hp, polls, remote, calls>>
             /\ error' = IF audioFile = NoFile
                         THEN "Please upload an audio file"
                         ELSE "Please enter a lecture name"
       /\ (\E s \in Subs : hp[s] = "new" /\ hp'[s] # "new")
          => audioFile # NoFile /\ Trim(lectureName) # ""]_vars

C12_Witness ==
    /\ error = "Please enter a lecture name"
    /\ lectureName = "  " /\ audioFile # NoFile
    /\ stage = "idle" /\ \A s \in Subs : hp[s] = "new" /\ lecture[s] = "none"

\* C13: the stage changes only along idle -> uploading -> processing ->
\* summary -> saving -> complete, or from a non-terminal stage to 'error'
\* (and from 'error' to 'uploading' by a new submit action); in particular
\* 'complete' is entered only from 'saving'.
StageEdges ==
    {<<"idle", "uploading">>, <<"uploading", "processing">>,
     <<"processing", "summary">>, <<"summary", "saving">>,
     <<"saving", "complete">>, <<"error", "uploading">>}
    \cup {<<st, "error">> : st \in {"idle", "uploading", "processing",
                                    "summary", "saving"}}

C13_StageEdges ==
    [][stage' # stage => <<stage, stage'>> \in StageEdges]_vars

\* C14: 'complete' and 'error' are terminal: once the stage is 'complete'
\* no step changes it, and once the stage is 'error' only a new submit
\* action (which sets 'uploading' and starts a submission) changes it.
C14_TerminalStages ==
    [][/\ stage = "complete" => stage' = "complete"
       /\ (stage = "error" /\ stage' # "error")
          => /\ stage' = "uploading"
             /\ \E s \in Subs : hp[s] = "new" /\ hp'[s] = "getUser"]_vars

\* C15: within the completion pipeline the calls are ordered by the awaits:
\* a summary generation is issued only by a run whose result fetch has just
\* resolved with text; an upsert only by a run whose generation has just
\* resolved; an update to 'completed' only by a run whose upsert has
\* settled, whose result had no text, or whose fetch or generation was
\* rejected. No run has issued more generations than fetches, upserts than
\* generations, or updates than fetches.
Moves(p, s, from, to) ==
    polls[p].sub = s /\ polls[p].pc = from /\ polls'[p].pc = to

C15_PipelineOrder ==
    /\ [](\A s \in Subs :
            /\ calls[s].gen <= calls[s].fetch
            /\ calls[s].upsert <= calls[s].gen
            /\ calls[s].completed <= calls[s].fetch)
    /\ [][\A s \in Subs :
            /\ calls'[s].gen # calls[s].gen
               => \E p \in Polls : Moves(p, s, "getResult", "genSummary")
            /\ calls'[s].upsert # calls[s].upsert
               => \E p \in Polls : Moves(p, s, "genSummary", "upsert")
            /\ calls'[s].completed # calls[s].completed
               => \E p \in Polls :
                    \/ Moves(p, s, "upsert", "updateMd")
                    \/ Moves(p, s, "getResult", "updateNoMd")
                    \/ Moves(p, s, "getResult", "catchUpdate")
                    \/ Moves(p, s, "genSummary", "catchUpdate")]_vars

C15_Witness ==
    \E s \in Subs :
        /\ calls[s].fetch = 1 /\ calls[s].gen = 1
        /\ calls[s].upsert = 1 /\ calls[s].completed = 1
        /\ lecture[s] = "completed" /\ summary[s]

\* C16: a run whose fetched result has no derived text issues the update to
\* 'completed' in the step in which the fetch resolves, and in none of its
\* steps requests a summary, issues an upsert or writes a SummaryRecord; no
\* submission with such a run has a summary requested or stored.
C16_NoTextNoSummary ==
    /\ [](\A p \in Polls :
            polls[p].resp = "nomd"
            => /\ calls[polls[p].sub].gen = 0 /\ calls[polls[p].sub].upsert = 0
               /\ ~summary[polls[p].sub]
               /\ calls[polls[p].sub].completed = 1
               /\ polls[p].pc \in {"updateNoMd", "delete", "timeout"})
    /\ [][\A p \in Polls :
            (polls'[p].resp = "nomd" /\ polls'[p] # polls[p])
            => /\ summary' = summary
               /\ calls'[polls'[p].sub].gen = calls[polls'[p].sub].gen
               /\ calls'[polls'[p].sub].upsert = calls[polls'[p].sub].upsert
               /\ polls[p].pc = "getResult"
                  => calls'[polls[p].sub].completed
                       = calls[polls[p].sub].completed + 1]_vars

C16_Witness ==
    \E p \in Polls :
        /\ polls[p].resp = "nomd" /\ polls[p].pc = "timeout"
        /\ lecture[polls[p].sub] = "completed"
        /\ ~summary[polls[p].sub] /\ calls[polls[p].sub].gen = 0

\* C17: the job request of a submission carries a slides field exactly when
\* a slides file was selected at the submit action; on the with-summary path
\* the settled upsert writes the SummaryRecord of this submission's lecture
\* id and of no other, and the update that follows sets the LectureRecord to
\* 'completed' with has_slides and has_alignment both equal to whether a
\* slides file was submitted.
C17_SummaryAndSlideFlags ==
    /\ [](\A s \in Subs :
            /\ jobStatus[s] # "none" => jobSlides[s] = submittedSlides[s]
            /\ flags[s].written
               => /\ flags[s].has_slides = submittedSlides[s]
                  /\ flags[s].has_alignment = submittedSlides[s]
                  /\ lecture[s] = "completed" /\ summary[s])
    /\ [][\A s \in Subs :
            /\ (hp[s] = "new" /\ hp'[s] # "new")
               => submittedSlides'[s] = (slidesFile # NoFile)
            /\ hp[s] # "new" => submittedSlides'[s] = submittedSlides[s]
            /\ (\E p \in Polls : Moves(p, s, "upsert", "updateMd"))
               => /\ summary'[s]
                  /\ \A t \in Subs \ {s} : summary'[t] = summary[t]
                  /\ calls'[s].completed = calls[s].completed + 1
            /\ (\E p \in Polls : Moves(p, s, "updateMd", "delete"))
               => /\ lecture'[s] = "completed"
                  /\ flags'[s] = [written |-> TRUE,
                                  has_slides |-> submittedSlides[s],
                                  has_alignment |-> submittedSlides[s]]
                  /\ \A t \in Subs \ {s} : flags'[t] = flags[t]]_vars

C17_Witness ==
    \E s \in Subs :
        /\ flags[s].written /\ flags[s].has_slides /\ flags[s].has_alignment
        /\ jobSlides[s] /\ summary[s] /\ lecture[s] = "completed"
        /\ slidesFile = NoFile

\* C18: a SummaryRecord is upserted at most once per job, and only by a run
\* that handled a 'completed' response, fetched a result with derived text
\* and whose summary generation has just resolved.
C18_UpsertOnce ==
    /\ [](\A s \in Subs : calls[s].upsert <= 1)
    /\ [][\A s \in Subs :
            calls'[s].upsert # calls[s].upsert
            => \E p \in Polls :
                 /\ Moves(p, s, "genSummary", "upsert")
                 /\ polls[p].resp = "md"
                 /\ calls[s].failed = 0]_vars

\* C19: a failure of the cleanup call is swallowed. A run that leaves its
\* await of deleteJob with the job not deleted goes on as after a success:
\* on the success path it sets the redirect timeout, on the
\* enrichment-failure path it navigates, and in both it leaves the stage,
\* the error message and every record alone and issues no further update.
C19_CleanupFailureSwallowed ==
    [][\A p \in Polls :
         LET s == polls[p].sub
         IN /\ (polls[p].pc = "delete" /\ polls'[p] # polls[p]
                /\ jobStatus'[s] # "deleted")
               => /\ polls'[p].pc = "timeout"
                  /\ UNCHANGED <<ui, lecture, summary, calls, refs>>
            /\ (polls[p].pc = "catchDelete" /\ polls'[p] # polls[p]
                /\ jobStatus'[s] # "deleted")
               => /\ polls'[p].pc = "done"
                  /\ calls'[s] = [calls[s] EXCEPT !.redirect = @ + 1]
                  /\ UNCHANGED <<ui, lecture, summary, refs>>]_vars

C19_Witness ==
    \E s \in Subs :
        /\ jobStatus[s] = "completed" /\ calls[s].cleanup = 1
        /\ calls[s].redirect = 1 /\ calls[s].gen = 1
        /\ stage = "complete" /\ error = NULL

C21_DeleteTreats404AsSuccess ==
    \A i \in 1..Len(deleteLog) :
        /\ deleteLog[i].raised
           <=> (deleteLog[i].status \notin 200..299 /\ deleteLog[i].status # 404)
        /\ \A k \in 1..(i - 1) :
             (deleteLog[k].job = deleteLog[i].job /\ ~deleteLog[k].raised
              /\ deleteLog[k].status # 404)
             => (deleteLog[i].status = 404 \/ deleteLog[i].raised)
        /\ deleteLog[i].status = 404 => ~deleteLog[i].raised

C21_Witness ==
    \E i, k \in 1..Len(deleteLog) :
        /\ k < i /\ deleteLog[k].job = deleteLog[i].job
        /\ deleteLog[k].status = 200 /\ ~deleteLog[k].raised
        /\ deleteLog[i].status = 404 /\ ~deleteLog[i].raised
        /\ storedJobs[deleteLog[i].job] = "deleted"

\* C22: the stored audio file always matches an accepted audio type or
\* extension and is at most 500 MiB, the stored slides file always matches
\* PDF/PPTX and is at most 50 MiB (so no request carries another file); a
\* selection that fails the type or the size test sets the type or the size
\* message and leaves the stage, both stored selections, every submission
\* and every request count as they are; a selection that passes is stored.
AudioTypeOk(f) ==
    \/ f.type \in {"audio/mpeg", "audio/mp3", "audio/wav", "audio/webm",
                   "audio/m4a", "audio/mp4", "audio/x-m4a"}
    \/ f.name \in {"lecture.mp3", "huge.mp3", "talk.M4A", "exact.wav"}

SlidesTypeOk(f) ==
    \/ f.type \in {"application/pdf", PptxType}
    \/ f.name \in {"deck.pdf", "huge.pptx", "exact.pptx"}

Untouched == UNCHANGED <<mounted, lectureName, audioFile, slidesFile, stage,
                         progress, statusMessage, refs, hp, polls, remote,
                         calls, slides>>

C22_OnlyValidFilesStored ==
    /\ [](/\ audioFile # NoFile => AudioTypeOk(audioFile) /\ audioFile.size <= 500
          /\ slidesFile # NoFile => SlidesTypeOk(slidesFile) /\ slidesFile.size <= 50
          /\ audioFile.name # "notes.txt")
    /\ [][/\ \A f \in AudioSelections :
               handleAudioSelect(f)
               => IF ~AudioTypeOk(f)
                  THEN Untouched /\ error' = "Please upload an MP3, WAV, WebM, or M4A audio file"
                  ELSE IF f.size > 500
                  THEN Untouched /\ error' = "Audio file must be less than 500MB"
                  ELSE audioFile' = f /\ error' = NULL
          /\ \A f \in SlidesSelections :
               handleSlidesSelect(f)
               => IF ~SlidesTypeOk(f)
                  THEN Untouched /\ error' = "Please upload a PDF or PPTX file"
                  ELSE IF f.size > 50
                  THEN Untouched /\ error' = "Slides file must be less than 50MB"
                  ELSE slidesFile' = f /\ error' = NULL]_vars

C22_Witness ==
    /\ error = "Please upload an MP3, WAV, WebM, or M4A audio file"
    /\ audioFile.name = "exact.wav" /\ slidesFile.name = "exact.pptx"
    /\ stage = "idle" /\ \A s \in Subs : hp[s] = "new"

\* C23: for every request, a path that starts with /dashboard, /record or
\* /lecture without an authenticated user is answered with a redirect to
\* /login carrying redirectTo = the requested path; a path that starts with
\* /login with an authenticated user is answered with a redirect to
\* /dashboard; every other request passes through.
C23_RouteProtection ==
    request # NoRequest =>
        IF request.pathname.head \in {"/dashboard", "/record", "/lecture"}
           /\ ~request.user
        THEN /\ response.kind = "redirect"
             /\ response.pathname = [head |-> "/login", tail |-> ""]
             /\ response.redirectTo = request.pathname
        ELSE IF request.pathname.head = "/login" /\ request.user
        THEN /\ response.kind = "redirect"
             /\ response.pathname = [head |-> "/dashboard", tail |-> ""]
        ELSE /\ response.kind = "next"
             /\ response.pathname = request.pathname

\* C24: the refresh timer of the lecture detail view is active exactly
\* while the view is rendered and the lecture status it stored last is
\* 'processing': one interval then, and none once the stored status is
\* 'completed' or 'failed', none before a status is stored, and none after
\* the view is torn down.
C24_RefreshWhileProcessing ==
    pageTimers = IF pageMounted = "mounted" /\ pageLecture = "processing"
                 THEN 1 ELSE 0

C24_Witness ==
    /\ pageMounted = "mounted" /\ pageLecture = "completed" /\ pageTimers = 0
    /\ Cardinality({i \in Fetches : pageFetches[i].pc # "free"}) >= 2

\* C25: a cleanup request is issued for a submission, and the stage becomes
\* 'complete', only once the update has set its LectureRecord to
\* 'completed': after an update that the Persistence Service reports as
\* failed, the job's files are not deleted and the stage is not 'complete'.
C25_CleanupOnlyAfterUpdateSucceeded ==
    /\ [](\A s \in Subs :
            (calls[s].cleanup > 0 \/ jobStatus[s] = "deleted")
            => lecture[s] = "completed")
    /\ [][(stage' = "complete" /\ stage # "complete")
          => \E p \in Polls :
               /\ polls'[p] # polls[p]
               /\ lecture'[polls[p].sub] = "completed"]_vars

\* C26: once a later submission has been started, no step of a
\* pollJobStatus run that belongs to an earlier submission cancels the
\* later submission's timer, changes the stage or the error message, or
\* sets the completion guard.
C26_NoCrossSubmissionLeak ==
    [][\A p \in Polls :
          (/\ polls[p].pc \notin {"free", "done", "sent"}
           /\ polls'[p] # polls[p]
           /\ \E t \in Subs : t > polls[p].sub /\ hp[t] # "new")
          => /\ \A t \in Subs : (t > polls[p].sub /\ t \in timers) => t \in timers'
             /\ stage' = stage /\ error' = error
             /\ completionStartedRef' = completionStartedRef]_vars

\* C27: at every moment at most one repeating poll timer is active, and an
\* active timer is the one whose handle is in pollingRef; no submit action
\* starts a timer while an earlier one is active.
C27_SingleTimerWithHandle ==
    /\ [](/\ Cardinality(timers) <= 1
          /\ \A t \in timers : pollingRef = t)
    /\ [][\A s \in Subs :
            (s \notin timers /\ s \in timers') => timers = {}]_vars

\* C28: a status poll whose call rejects is swallowed: handling it leaves
\* the stage, the progress, the status message, the error message, the
\* completion guard, the timer and its handle, every record and every
\* request count unchanged, so the timer goes on starting polls.
C28_PollFailureSwallowed ==
    [][\A p \in Polls :
          (Handles(p) /\ polls[p].resp = "reject")
          => /\ UNCHANGED <<stage, progress, statusMessage, error,
                            completionStartedRef, pollingRef, timers,
                            jobStatus, lecture, summary, flags, calls, hp>>
             /\ polls'[p].pc = "done"]_vars

C28_Witness ==
    \E s \in Subs :
        /\ stage = "processing" /\ progress = 15 /\ error = NULL
        /\ s \in timers /\ pollingRef = s /\ calls[s].status = 2
        /\ lecture[s] = "processing"
        /\ \E p \in Polls : polls[p].pc = "done"

\* C29: every submission that reached stage 'processing' (its polling timer
\* is active) eventually has its timer stopped and has then either issued
\* the navigation to the lecture detail view or put the page in stage
\* 'error'.
C29_SubmissionTerminates ==
    \A s \in Subs :
        (hp[s] = "polling" /\ s \in timers)
        ~> (s \notin timers /\ (calls[s].redirect >= 1 \/ stage = "error"))

\* C30: a navigation to the lecture detail view is issued only by a run of
\* pollJobStatus that has issued the update to 'completed' and the cleanup
\* request for that same submission; a submission whose job failed, and a
\* run that handles a 'failed' response, never issue one.
C30_RedirectOnlyAfterCompletion ==
    /\ [](\A s \in Subs :
            /\ calls[s].redirect >= 1
               => /\ calls[s].completed >= 1
                  /\ calls[s].cleanup >= 1
                  /\ calls[s].failed = 0
            /\ jobStatus[s] = "failed" => calls[s].redirect = 0)
    /\ [][\A s \in Subs :
            calls'[s].redirect # calls[s].redirect
            => \E p \in Polls :
                 /\ polls[p].sub = s
                 /\ polls[p].pc \in {"timeout", "catchDelete"}
                 /\ polls'[p].pc = "done"
                 /\ calls[s].completed >= 1
                 /\ calls[s].cleanup >= 1]_vars
    /\ [][\A p \in Polls :
            (polls[p].pc = "failUpdate" /\ polls'[p] # polls[p])
            => /\ polls'[p].pc = "done"
               /\ calls'[polls[p].sub].redirect = 0]_vars

C30_Witness ==
    \E s, t \in Subs :
        /\ calls[s].redirect = 1 /\ calls[s].completed = 1
        /\ calls[s].cleanup = 1 /\ lecture[s] = "completed"
        /\ jobStatus[t] = "failed" /\ lecture[t] = "failed"
        /\ calls[t].failed >= 1 /\ calls[t].redirect = 0

====
